---- MODULE Spec2Model ----
(***************************************************************************)
(* TalentScout hiring assistant (src/app.py): the conversation state       *)
(* machine update_conversation_state, the persistence hand-off             *)
(* save_conversation_data, and the turn loop of main / get_chat_response.  *)
(*                                                                         *)
(* Python strings are modelled as sequences of one-character strings, so   *)
(* that lower(), the substring test, split(",") and strip() are computed   *)
(* as the code computes them.                                              *)
(***************************************************************************)
EXTENDS Integers, Sequences, FiniteSets, TLC

VARIABLES
    conversation_state,     \* st.session_state.conversation_state (a dict)
    messages,               \* st.session_state.messages (the transcript)
    conversation_data,      \* st.session_state.conversation_data (snapshot)
    conversation_filename,  \* st.session_state.conversation_filename
    user_input,             \* argument of the latest update_conversation_state call
    save_calls,             \* calls of save_conversation_data made by the latest turn
    call_failed             \* whether the latest turn's completion call raised

vars == <<conversation_state, messages, conversation_data,
          conversation_filename, user_input, save_calls, call_failed>>

\* Python's None; distinct from every character sequence.
None == <<"<None>">>

\* st.session_state before save_conversation_data has set conversation_data.
NoData == [candidate_info |-> None]

----------------------------------------------------------------------------
\* Bounds of the model.

\* Number of user turns the turn loop of main is explored to.
MaxTurns == 3

\* Longest question list the question-generation collaborator supplies.
MaxQuestions == 3

----------------------------------------------------------------------------
\* Strings.

UpperCase == <<"A","B","C","D","E","F","G","H","I","J","K","L","M",
               "N","O","P","Q","R","S","T","U","V","W","X","Y","Z">>
LowerCase == <<"a","b","c","d","e","f","g","h","i","j","k","l","m",
               "n","o","p","q","r","s","t","u","v","w","x","y","z">>

\* str.lower() on one character.
LowerChar(c) ==
    IF \E i \in 1..Len(UpperCase) : UpperCase[i] = c
    THEN LowerCase[CHOOSE i \in 1..Len(UpperCase) : UpperCase[i] = c]
    ELSE c

\* str.lower()
Lower(s) == [i \in 1..Len(s) |-> LowerChar(s[i])]

\* `word in s` for strings: word occurs as a contiguous substring.
Contains(s, word) ==
    \E i \in 0..(Len(s) - Len(word)) : SubSeq(s, i + 1, i + Len(word)) = word

\* Characters str.strip() removes.
Whitespace == {" ", "\t", "\n"}

RECURSIVE LStrip(_)
LStrip(s) ==
    IF s # <<>> /\ Head(s) \in Whitespace THEN LStrip(Tail(s)) ELSE s

RECURSIVE RStrip(_)
RStrip(s) ==
    IF s # <<>> /\ s[Len(s)] \in Whitespace
    THEN RStrip(SubSeq(s, 1, Len(s) - 1))
    ELSE s

\* str.strip()
Strip(s) == RStrip(LStrip(s))

\* str.split(","): the pieces between commas; never an empty list.
RECURSIVE SplitComma(_)
SplitComma(s) ==
    IF \E i \in 1..Len(s) : s[i] = ","
    THEN LET i == CHOOSE k \in 1..Len(s) :
                      s[k] = "," /\ \A j \in 1..(k - 1) : s[j] # ","
         IN  <<SubSeq(s, 1, i - 1)>> \o SplitComma(SubSeq(s, i + 1, Len(s)))
    ELSE <<s>>

\* The elements of a list.
Range(seq) == {seq[i] : i \in 1..Len(seq)}

\* list.index(x), counted from 0 as in Python; x must occur in seq.
IndexOf(seq, x) ==
    (CHOOSE i \in 1..Len(seq) :
        seq[i] = x /\ \A j \in 1..(i - 1) : seq[j] # x) - 1

\* dict[key] = value
Put(dict, key, value) ==
    [k \in DOMAIN dict \cup {key} |-> IF k = key THEN value ELSE dict[k]]

\* The empty dict.
EmptyDict == [k \in {} |-> None]

----------------------------------------------------------------------------
\* Utterances the candidate types (st.chat_input never yields the empty one).

TextTechs   == <<"P","y","t","h","o","n",","," ","G","o"," ",","," ","R","u","s","t">>
TextRepeat  == <<"a",",","b",",","a">>
TextBlank   == <<" ",",">>
TextBye     == <<"B","y","e">>
TextExit    == <<"e","x","i","t">>
TextQuit    == <<"Q","U","I","T">>
TextThanks  == <<"o","k"," ","t","h","a","n","k"," ","y","o","u">>

Python == <<"P","y","t","h","o","n">>
Go     == <<"G","o">>
Rust   == <<"R","u","s","t">>

Utterances ==
    {TextTechs, TextRepeat, TextBlank,
     TextBye, TextExit, TextQuit, TextThanks}

----------------------------------------------------------------------------
\* update_conversation_state

\* Mutant: the keyword list without "bye" and "goodbye".
KeywordsWithoutBye ==
    << <<"e","x","i","t">>,
       <<"q","u","i","t">>,
       <<"t","h","a","n","k"," ","y","o","u">> >>

\* The termination keywords of line 168.
Keywords ==
    << <<"g","o","o","d","b","y","e">>,
       <<"b","y","e">>,
       <<"e","x","i","t">>,
       <<"q","u","i","t">>,
       <<"t","h","a","n","k"," ","y","o","u">> >>

\* any(word in user_input.lower() for word in [...])
ContainsKeyword(u) ==
    \E k \in 1..Len(Keywords) : Contains(Lower(u), Keywords[k])

\* The utterances of the model that line 168 takes for the end of the
\* conversation (the test is evaluated once per utterance).
TerminationUtterances == {u \in Utterances : ContainsKeyword(u)}

\* Mutant: email and phone asked in the other order.
FieldOrderSwapped ==
    <<"name", "phone", "email", "experience", "position", "location">>

\* The profile fields in the order of the elif chain, lines 179-190.
FieldOrder == <<"name", "email", "phone", "experience", "position", "location">>

\* Mutant: the greeting turn goes straight to the tech stack question.
GreetingStageSkip(state, u) == [state EXCEPT !.stage = "tech_stack"]

\* Stage greeting, lines 175-176.
GreetingStage(state, u) == [state EXCEPT !.stage = "collecting_info"]

\* Mutant: the last missing field takes the utterance.
CollectingInfoStageLast(state, u) ==
    LET missing == {i \in 1..Len(FieldOrder) :
                        FieldOrder[i] \notin DOMAIN state.collected_info}
    IN  IF missing = {} THEN state
        ELSE LET i == CHOOSE m \in missing : \A n \in missing : m >= n
                 filled == [state EXCEPT !.collected_info =
                                Put(@, FieldOrder[i], u)]
             IN  IF FieldOrder[i] = "location"
                 THEN [filled EXCEPT !.stage = "tech_stack"]
                 ELSE filled

\* Stage collecting_info, lines 177-191: the first missing field takes the
\* utterance; filling location moves on to tech_stack.
CollectingInfoStage(state, u) ==
    LET missing == {i \in 1..Len(FieldOrder) :
                        FieldOrder[i] \notin DOMAIN state.collected_info}
    IN  IF missing = {} THEN state
        ELSE LET i == CHOOSE m \in missing : \A n \in missing : m <= n
                 filled == [state EXCEPT !.collected_info =
                                Put(@, FieldOrder[i], u)]
             IN  IF FieldOrder[i] = "location"
                 THEN [filled EXCEPT !.stage = "tech_stack"]
                 ELSE filled

\* Mutant: the pieces are not trimmed.
ParseTechsNoStrip(u) == SplitComma(u)

\* [tech.strip() for tech in user_input.split(",")]
ParseTechs(u) ==
    LET pieces == SplitComma(u)
    IN  [i \in 1..Len(pieces) |-> Strip(pieces[i])]

\* Line 194 for each utterance of the model (evaluated once per utterance).
TechsOf == [u \in Utterances |-> ParseTechs(u)]

\* Mutant: a new score entry starts with a total of 1.
RECURSIVE InitScoresOne(_, _)
InitScoresOne(scores, techs) ==
    IF techs = <<>> THEN scores
    ELSE InitScoresOne(
             Put(scores, Head(techs), [total |-> 1, questions |-> <<>>]),
             Tail(techs))

\* for tech in techs: state["scores"][tech] = {"total": 0, "questions": []}
RECURSIVE InitScores(_, _)
InitScores(scores, techs) ==
    IF techs = <<>> THEN scores
    ELSE InitScores(Put(scores, Head(techs), [total |-> 0, questions |-> <<>>]),
                    Tail(techs))

\* Mutant: the tech_stack turn does not set the quiz position.
TechStackStageNoCurrent(state, u) ==
    IF "tech_stack" \in DOMAIN state.collected_info THEN state
    ELSE [state EXCEPT
            !.collected_info = Put(@, "tech_stack", TechsOf[u]),
            !.scores = InitScores(@, TechsOf[u]),
            !.stage = "technical_questions"]

\* Mutant: blank pieces of the utterance are dropped from the tech stack.
TechStackStageDropBlank(state, u) ==
    IF "tech_stack" \in DOMAIN state.collected_info THEN state
    ELSE LET techs == SelectSeq(TechsOf[u], LAMBDA tech : tech # <<>>)
             s1 == [state EXCEPT
                      !.collected_info = Put(@, "tech_stack", techs),
                      !.scores = InitScores(@, techs),
                      !.stage = "technical_questions"]
         IN  IF techs # <<>>
             THEN [s1 EXCEPT !.current_tech = techs[1],
                             !.current_question_index = 0]
             ELSE s1

\* Stage tech_stack, lines 192-202.
TechStackStage(state, u) ==
    IF "tech_stack" \in DOMAIN state.collected_info THEN state
    ELSE LET techs == TechsOf[u]
             s1 == [state EXCEPT
                      !.collected_info = Put(@, "tech_stack", techs),
                      !.scores = InitScores(@, techs),
                      !.stage = "technical_questions"]
         IN  IF techs # <<>>
             THEN [s1 EXCEPT !.current_tech = techs[1],
                             !.current_question_index = 0]
             ELSE s1

\* Python truthiness of current_tech: None and "" are false.
Truthy(tech) == tech # None /\ tech # <<>>

\* state["collected_info"].get("tech_stack", [])
TechStackOf(state) ==
    IF "tech_stack" \in DOMAIN state.collected_info
    THEN state.collected_info["tech_stack"]
    ELSE <<>>

\* state["questions"].get(current_tech, [])
QuestionsOf(state, tech) ==
    IF tech \in DOMAIN state.questions THEN state.questions[tech] ELSE <<>>

\* Lines 215-223: past the end of the question list, go to the technology
\* after the first occurrence of current_tech, or to the summary.
AdvanceTech(state) ==
    LET current_tech == state.current_tech
        tech_stack == TechStackOf(state)
    IN  IF current_tech \in Range(tech_stack)
        THEN LET current_tech_index == IndexOf(tech_stack, current_tech)
             IN  IF current_tech_index + 1 < Len(tech_stack)
                 THEN [state EXCEPT
                         !.current_tech = tech_stack[current_tech_index + 2],
                         !.current_question_index = 0]
                 ELSE [state EXCEPT !.stage = "summary"]
        ELSE state

\* Mutant: the end of the question list is tested with > instead of >=.
TechnicalQuestionsStageLate(state, u) ==
    LET current_tech == state.current_tech
    IN  IF Truthy(current_tech) /\ current_tech \in DOMAIN state.scores
        THEN LET s1 == [state EXCEPT !.current_question_index = @ + 1]
             IN  IF s1.current_question_index >
                        Len(QuestionsOf(s1, current_tech))
                 THEN AdvanceTech(s1)
                 ELSE s1
        ELSE state

\* Mutant: a technology without an entry in questions is left alone.
TechnicalQuestionsStageSkip(state, u) ==
    LET current_tech == state.current_tech
    IN  IF /\ Truthy(current_tech)
           /\ current_tech \in DOMAIN state.scores
           /\ current_tech \in DOMAIN state.questions
        THEN LET s1 == [state EXCEPT !.current_question_index = @ + 1]
             IN  IF s1.current_question_index >=
                        Len(QuestionsOf(s1, current_tech))
                 THEN AdvanceTech(s1)
                 ELSE s1
        ELSE state

\* Stage technical_questions, lines 203-223.
TechnicalQuestionsStage(state, u) ==
    LET current_tech == state.current_tech
    IN  IF Truthy(current_tech) /\ current_tech \in DOMAIN state.scores
        THEN LET s1 == [state EXCEPT !.current_question_index = @ + 1]
                 current_questions == QuestionsOf(s1, current_tech)
             IN  IF s1.current_question_index >= Len(current_questions)
                 THEN AdvanceTech(s1)
                 ELSE s1
        ELSE state

\* The if/elif chain on state["stage"], lines 175-223.
StageUpdate(state, u) ==
    CASE state.stage = "greeting"            -> GreetingStage(state, u)
      [] state.stage = "collecting_info"     -> CollectingInfoStage(state, u)
      [] state.stage = "tech_stack"          -> TechStackStage(state, u)
      [] state.stage = "technical_questions" -> TechnicalQuestionsStage(state, u)
      [] OTHER                               -> state

\* Mutant: ending the interview also forgets the quiz position.
EndConversationReset(state) ==
    [state EXCEPT !.stage = "ending", !.current_tech = None,
                  !.current_question_index = 0]

\* Lines 168-172: a termination keyword ends the interview.
EndConversation(state) == [state EXCEPT !.stage = "ending"]

\* The conversation state update_conversation_state(u) leaves behind.
UpdatedState(state, u) ==
    IF u \in TerminationUtterances
    THEN EndConversation(state)
    ELSE StageUpdate(state, u)

\* How often update_conversation_state(u) calls save_conversation_data.
SaveCallsOf(u) == IF u \in TerminationUtterances THEN 1 ELSE 0

----------------------------------------------------------------------------
\* save_conversation_data, lines 135-158 (the timestamp is left out).

SessionId == <<"s","i","d">>

ConversationData(state, msgs) ==
    [candidate_info       |-> state.collected_info,
     tech_stack           |-> TechStackOf(state),
     scores               |-> state.scores,
     conversation_summary |-> msgs]

Filename(session_id) == <<"candidate_">> \o session_id \o <<".json">>

----------------------------------------------------------------------------
\* initialize_session_state, lines 68-78 and 85-86.

InitialConversationState ==
    [stage                  |-> "greeting",
     collected_info         |-> EmptyDict,
     tech_stack             |-> <<>>,
     questions_asked        |-> 0,
     current_tech           |-> None,
     current_question_index |-> 0,
     scores                 |-> EmptyDict,
     questions              |-> EmptyDict]

\* The session after construction, with the questions dict as given.
InitWith(questions) ==
    /\ conversation_state =
           [InitialConversationState EXCEPT !.questions = questions]
    /\ messages = <<>>
    /\ conversation_data = NoData
    /\ conversation_filename = None
    /\ user_input = None
    /\ save_calls = 0
    /\ call_failed = FALSE

Init == InitWith(EmptyDict)

\* One call update_conversation_state(u) on a transcript msgs.
UpdateEffect(u, msgs) ==
    /\ conversation_state' = UpdatedState(conversation_state, u)
    /\ user_input' = u
    /\ save_calls' = SaveCallsOf(u)
    /\ IF SaveCallsOf(u) > 0
       THEN /\ conversation_data' = ConversationData(conversation_state', msgs)
            /\ conversation_filename' = Filename(SessionId)
       ELSE UNCHANGED <<conversation_data, conversation_filename>>

\* The transition function called on its own with utterance u.
update_conversation_state(u) ==
    /\ UpdateEffect(u, messages)
    /\ UNCHANGED <<messages, call_failed>>

NextUpdate == \E u \in Utterances : update_conversation_state(u)

\* The transition function driven by a stream of utterances.
SpecUpdate == Init /\ [][NextUpdate]_vars

\* The transition function fed an unending stream of utterances without a
\* termination keyword.
NextStream ==
    \E u \in Utterances \ TerminationUtterances : update_conversation_state(u)

SpecStream == Init /\ [][NextStream]_vars /\ WF_vars(NextStream)

----------------------------------------------------------------------------
\* The transition function on a session whose questions dict has been filled
\* in the format of line 77, {"tech": ["question1", "question2", ...]}.

QuestionTexts == <<"question1", "question2", "question3", "question4", "question5">>

QuestionList(n) == SubSeq(QuestionTexts, 1, n)

TechA == <<"a">>
TechB == <<"b">>

\* Question dicts: Python and a with n questions, Go with one, b with an
\* empty list, Rust and "" with no entry.
QuestionDicts ==
    {[tech \in {Python, Go, TechA, TechB} |->
        CASE tech = Go    -> QuestionList(1)
          [] tech = TechB -> QuestionList(0)
          [] OTHER        -> QuestionList(n)] : n \in 1..MaxQuestions}

InitQuiz == \E questions \in QuestionDicts : InitWith(questions)

SpecQuiz == InitQuiz /\ [][NextUpdate]_vars

----------------------------------------------------------------------------
\* get_chat_response, initialize_session_state and main.

\* What client.chat.completions.create does: it returns a text, returns an
\* empty text, or raises.
Completions == {"text", "empty", "raise"}

Reply   == <<"reply">>
Apology == <<"I apologize, but I'm experiencing technical difficulties. Please try again in a moment.">>

\* The value get_chat_response returns, lines 129 and 131-133.
ResponseOf(completion) ==
    CASE completion = "text"  -> Reply
      [] completion = "empty" -> <<>>
      [] completion = "raise" -> Apology

Message(role, content) == [role |-> role, content |-> content]

\* Lines 88-93: the greeting is asked for while the transcript is empty and
\* appended when it is not the empty text (get_chat_response("") does not
\* call update_conversation_state, line 104).
WithGreeting(msgs, completion) ==
    IF Len(msgs) = 0 /\ ResponseOf(completion) # <<>>
    THEN Append(msgs, Message("assistant", ResponseOf(completion)))
    ELSE msgs

\* A run of the script without a chat input: initialize_session_state only.
initialize_session_state(greeting) ==
    /\ messages' = WithGreeting(messages, greeting)
    /\ UNCHANGED <<conversation_state, conversation_data,
                   conversation_filename, user_input, save_calls, call_failed>>

\* Mutant: a turn whose completion call raised does not update the state.
mainKeepOnFailure(prompt, greeting, completion) ==
    /\ Len(SelectSeq(messages, LAMBDA m : m.role = "user")) < MaxTurns
    /\ LET msgs0 == WithGreeting(messages, greeting)
           msgs1 == Append(msgs0, Message("user", prompt))
       IN  /\ IF completion = "raise"
              THEN UNCHANGED <<conversation_state, user_input, save_calls,
                               conversation_data, conversation_filename>>
              ELSE UpdateEffect(prompt, msgs1)
           /\ messages' = Append(msgs1,
                                 Message("assistant", ResponseOf(completion)))
           /\ call_failed' = (completion = "raise")

\* Mutant: a turn whose completion call raised appends no assistant entry.
mainSilentOnFailure(prompt, greeting, completion) ==
    /\ Len(SelectSeq(messages, LAMBDA m : m.role = "user")) < MaxTurns
    /\ LET msgs0 == WithGreeting(messages, greeting)
           msgs1 == Append(msgs0, Message("user", prompt))
       IN  /\ UpdateEffect(prompt, msgs1)
           /\ messages' = IF completion = "raise" THEN msgs1
                          ELSE Append(msgs1, Message("assistant",
                                                     ResponseOf(completion)))
           /\ call_failed' = (completion = "raise")

\* A run of the script with chat input prompt, lines 244 and 262-273:
\* the state is updated (line 105) before the completion call (line 122).
main(prompt, greeting, completion) ==
    /\ Len(SelectSeq(messages, LAMBDA m : m.role = "user")) < MaxTurns
    /\ LET msgs0 == WithGreeting(messages, greeting)
           msgs1 == Append(msgs0, Message("user", prompt))
       IN  /\ UpdateEffect(prompt, msgs1)
           /\ messages' = Append(msgs1,
                                 Message("assistant", ResponseOf(completion)))
           /\ call_failed' = (completion = "raise")

Next ==
    \/ \E greeting \in Completions : initialize_session_state(greeting)
    \/ \E prompt \in Utterances, greeting \in Completions,
          completion \in Completions \ {"empty"} :
            main(prompt, greeting, completion)

Spec == Init /\ [][Next]_vars

----------------------------------------------------------------------------
\* Properties.

stage == conversation_state.stage
collected_info == conversation_state.collected_info

\* The latest step was a turn whose utterance has no termination keyword.
NormalTurn == user_input' \notin TerminationUtterances

\* The utterances in which "bye" occurs, whatever the case of its letters.
C1_ByeUtterances ==
    {u \in Utterances : Contains(Lower(u), <<"b","y","e">>)}

\* C1: at every stage a turn whose utterance contains "bye" (in any case)
\* sets stage to ending in that turn and calls save_conversation_data
\* exactly once, and no later turn without a keyword leaves stage ending.
C1_ByeEndsInterview ==
    [][ /\ user_input' \in C1_ByeUtterances =>
              /\ conversation_state'.stage = "ending"
              /\ save_calls' = 1
              /\ conversation_data' # NoData
        /\ (stage = "ending" /\ NormalTurn) =>
              conversation_state'.stage = "ending" ]_vars

\* "Bye" typed in the middle of the quiz ended the interview.
C1_Witness ==
    /\ stage = "ending"
    /\ user_input = TextBye
    /\ save_calls = 1
    /\ conversation_state.current_tech = Go
    /\ conversation_data # NoData

\* The five termination words of the claim.
C2_Words ==
    { <<"g","o","o","d","b","y","e">>, <<"b","y","e">>, <<"e","x","i","t">>,
      <<"q","u","i","t">>, <<"t","h","a","n","k"," ","y","o","u">> }

\* The utterances that contain one of them, whatever the case.
C2_KeywordUtterances ==
    {u \in Utterances : \E word \in C2_Words : Contains(Lower(u), word)}

\* C2: a turn whose utterance contains a termination keyword changes
\* nothing of the conversation state but stage: collected_info, scores,
\* questions, current_tech and current_question_index stay as they were.
C2_KeywordTurnOnlyChangesStage ==
    [][ user_input' \in C2_KeywordUtterances =>
            /\ conversation_state'.stage = "ending"
            /\ conversation_state' =
                   [conversation_state EXCEPT !.stage = "ending"] ]_vars

\* "ok thank you" after the first of three Python questions was answered.
C2_Witness ==
    /\ stage = "ending"
    /\ user_input = TextThanks
    /\ conversation_state.current_tech = Python
    /\ conversation_state.current_question_index = 1
    /\ Len(QuestionsOf(conversation_state, Python)) = 3
    /\ Python \in DOMAIN conversation_state.scores

\* The field order of the claim.
C3_Order == <<"name", "email", "phone", "experience", "position", "location">>

\* C3: in stage collecting_info the k-th utterance without a keyword is
\* stored verbatim as the k-th field of name, email, phone, experience,
\* position, location, no other field is touched, and stage becomes
\* tech_stack on exactly the turn that fills location.
C3_FieldsInOrder ==
    [][ (stage = "collecting_info" /\ NormalTurn) =>
          LET k == Cardinality(DOMAIN collected_info) + 1
          IN  /\ k <= 6
              /\ DOMAIN collected_info = {C3_Order[i] : i \in 1..(k - 1)}
              /\ conversation_state'.collected_info =
                     Put(collected_info, C3_Order[k], user_input')
              /\ conversation_state'.stage =
                     IF k = 6 THEN "tech_stack" ELSE "collecting_info"
              /\ conversation_state' =
                     [conversation_state EXCEPT
                        !.collected_info = conversation_state'.collected_info,
                        !.stage = conversation_state'.stage] ]_vars

\* Six utterances were stored, each under its own field.
C3_Witness ==
    /\ stage = "tech_stack"
    /\ user_input = TextRepeat
    /\ DOMAIN collected_info = {C3_Order[i] : i \in 1..6}
    /\ collected_info["name"] = TextTechs
    /\ collected_info["email"] = TextRepeat
    /\ collected_info["phone"] = TextBlank
    /\ collected_info["experience"] = TextBlank
    /\ collected_info["position"] = TextTechs
    /\ collected_info["location"] = TextRepeat

\* The technologies of the latest tech stack.
TechStack == TechStackOf(conversation_state)

\* C4: once the tech_stack turn has happened, collected_info.tech_stack is
\* the trimmed comma-separated pieces of its utterance in order ("Python,
\* Go , Rust" gives Python, Go, Rust), the keys of scores and the keys of
\* questions are each exactly the elements of the tech stack, and every
\* score total is 0 when it is created.
C4_KeysAreTechStack ==
    [][ /\ (stage = "tech_stack" /\ NormalTurn) =>
              /\ "tech_stack" \in DOMAIN conversation_state'.collected_info
              /\ user_input' = TextTechs =>
                    conversation_state'.collected_info["tech_stack"] =
                        <<Python, Go, Rust>>
              /\ \A tech \in DOMAIN conversation_state'.scores :
                    conversation_state'.scores[tech].total = 0
        /\ "tech_stack" \in DOMAIN conversation_state'.collected_info =>
              /\ DOMAIN conversation_state'.scores =
                     Range(conversation_state'.collected_info["tech_stack"])
              /\ DOMAIN conversation_state'.questions =
                     Range(conversation_state'.collected_info["tech_stack"]) ]_vars

\* The part of C4 about tech_stack and scores, without the keys of questions.
C4_ScoresKeysAreTechStack ==
    [][ /\ (stage = "tech_stack" /\ NormalTurn) =>
              /\ "tech_stack" \in DOMAIN conversation_state'.collected_info
              /\ user_input' = TextTechs =>
                    conversation_state'.collected_info["tech_stack"] =
                        <<Python, Go, Rust>>
              /\ \A tech \in DOMAIN conversation_state'.scores :
                    conversation_state'.scores[tech].total = 0
        /\ "tech_stack" \in DOMAIN conversation_state'.collected_info =>
              DOMAIN conversation_state'.scores =
                  Range(conversation_state'.collected_info["tech_stack"]) ]_vars

\* A turn of the quiz that answers a question of a technology that has
\* n >= 1 questions and is not the last one of the tech stack.
C5_AnswerTurn(n) ==
    /\ stage = "technical_questions"
    /\ NormalTurn
    /\ conversation_state.current_tech \in DOMAIN conversation_state.questions
    /\ Len(conversation_state.questions[conversation_state.current_tech]) = n
    /\ conversation_state.current_tech # TechStack[Len(TechStack)]

\* C5: while a technology with n >= 1 questions that is not the last one
\* is quizzed, the index is one of 0..n-1, each of the first n-1 answer
\* turns adds one to it and keeps current_tech, and the n-th answer turn
\* sets current_tech to the next element of the tech stack (the one after
\* the first occurrence of the name) with the index back at 0.
C5_QuizSteps ==
    [][ \A n \in 1..(MaxQuestions + 1) : C5_AnswerTurn(n) =>
          LET index == conversation_state.current_question_index
              tech  == conversation_state.current_tech
          IN  /\ index \in 0..(n - 1)
              /\ index < n - 1 =>
                    conversation_state' =
                        [conversation_state EXCEPT
                            !.current_question_index = index + 1]
              /\ index = n - 1 =>
                    conversation_state' =
                        [conversation_state EXCEPT
                            !.current_question_index = 0,
                            !.current_tech =
                                TechStack[IndexOf(TechStack, tech) + 2]] ]_vars

\* The third answer about Python moved the quiz on to Go.
C5_Witness ==
    /\ stage = "technical_questions"
    /\ TechStack = <<Python, Go, Rust>>
    /\ Len(QuestionsOf(conversation_state, Python)) = 3
    /\ conversation_state.current_tech = Go
    /\ conversation_state.current_question_index = 0
    /\ user_input = TextBlank

\* C6: an answer turn that exhausts the question list of the last
\* technology of the tech stack (repeated names included) sets stage to
\* summary, and in stage summary a turn without a keyword changes nothing.
C6_LastTechLeadsToSummary ==
    [][ /\ ( /\ stage = "technical_questions"
             /\ NormalTurn
             /\ conversation_state.current_tech = TechStack[Len(TechStack)]
             /\ conversation_state.current_question_index + 1 >=
                    Len(QuestionsOf(conversation_state,
                                    conversation_state.current_tech)) ) =>
              conversation_state'.stage = "summary"
        /\ (stage = "summary" /\ NormalTurn) =>
              conversation_state' = conversation_state ]_vars

\* The marks recorded for all technologies together.
RECURSIVE C7_Recorded(_, _)
C7_Recorded(scores, techs) ==
    IF techs = {} THEN 0
    ELSE LET tech == CHOOSE t \in techs : TRUE
         IN  Len(scores[tech].questions) + C7_Recorded(scores, techs \ {tech})

\* C7: every answer turn of the quiz appends exactly one entry to
\* scores[current_tech].questions of the technology that was current
\* before the turn, and to no other.
C7_OneMarkPerAnswer ==
    [][ (stage = "technical_questions" /\ NormalTurn) =>
          LET tech == conversation_state.current_tech
          IN  /\ tech \in DOMAIN conversation_state.scores
              /\ Len(conversation_state'.scores[tech].questions) =
                     Len(conversation_state.scores[tech].questions) + 1
              /\ C7_Recorded(conversation_state'.scores,
                             DOMAIN conversation_state'.scores) =
                     C7_Recorded(conversation_state.scores,
                                 DOMAIN conversation_state.scores) + 1 ]_vars

\* C8: a user turn whose completion call raised leaves the conversation
\* state as it was before the turn.
C8_FailedCallKeepsState ==
    [][ (messages' # messages /\ call_failed') =>
            conversation_state' = conversation_state ]_vars

\* C9: the opening turn of the system, which appends the greeting to the
\* empty transcript, moves stage from greeting to collecting_info and
\* captures no field.
C9_OpeningTurnAdvances ==
    [][ (messages = <<>> /\ Len(messages') = 1) =>
            /\ conversation_state'.stage = "collecting_info"
            /\ conversation_state'.collected_info = collected_info ]_vars

\* C10: current_tech is an element of the tech stack whenever stage is
\* technical_questions, and None in every other stage.
C10_CurrentTechOnlyInQuiz ==
    /\ stage = "technical_questions" =>
          conversation_state.current_tech \in Range(TechStack)
    /\ stage # "technical_questions" =>
          conversation_state.current_tech = None

\* C10 as amended: current_tech is an element of the tech stack whenever
\* stage is technical_questions and None whenever stage is greeting,
\* collecting_info or tech_stack; in stage summary it is still the last
\* technology of the tech stack, and in stage ending it is what it was when
\* the keyword came: None before the tech_stack turn, an element of the
\* tech stack after it.
C10_CurrentTechByStage ==
    /\ stage = "technical_questions" =>
          conversation_state.current_tech \in Range(TechStack)
    /\ stage \in {"greeting", "collecting_info", "tech_stack"} =>
          conversation_state.current_tech = None
    /\ stage = "summary" =>
          conversation_state.current_tech = TechStack[Len(TechStack)]
    /\ stage = "ending" =>
          IF "tech_stack" \in DOMAIN collected_info
          THEN conversation_state.current_tech \in Range(TechStack)
          ELSE conversation_state.current_tech = None

\* The quiz is over and current_tech still names its last technology.
C10_Witness ==
    /\ stage = "summary"
    /\ TechStack = <<Python, Go, Rust>>
    /\ conversation_state.current_tech = Rust

\* C11: whenever stage is technical_questions and current_tech is set,
\* current_question_index is at least 0 and less than the number of
\* questions of current_tech (none when it has no question list).
C11_IndexInRange ==
    (stage = "technical_questions" /\ conversation_state.current_tech # None) =>
        /\ 0 <= conversation_state.current_question_index
        /\ conversation_state.current_question_index <
               Len(QuestionsOf(conversation_state,
                               conversation_state.current_tech))

\* An answer turn of the quiz for a technology that is quizzed (its name
\* is not empty) and has no entry in questions.
C12_AnswerWithoutQuestions ==
    /\ stage = "technical_questions"
    /\ NormalTurn
    /\ Truthy(conversation_state.current_tech)
    /\ conversation_state.current_tech \in DOMAIN conversation_state.scores
    /\ conversation_state.current_tech \notin DOMAIN conversation_state.questions

C13_BlankUtterances ==
    {u \in Utterances \ TerminationUtterances :
        \A i \in 1..Len(SplitComma(u)) : Strip(SplitComma(u)[i]) = <<>>}

\* C13: in stage technical_questions a turn without a keyword changes
\* nothing of the conversation state when current_tech is None or is not a
\* key of scores, and a tech_stack utterance that names no technology moves
\* stage to technical_questions and leaves current_tech None.
C13_UnsetTechNoOp ==
    [][ /\ ( /\ stage = "technical_questions"
             /\ NormalTurn
             /\ \/ conversation_state.current_tech = None
                \/ conversation_state.current_tech \notin
                       DOMAIN conversation_state.scores ) =>
              conversation_state' = conversation_state
        /\ (stage = "tech_stack" /\ user_input' \in C13_BlankUtterances) =>
              /\ conversation_state'.stage = "technical_questions"
              /\ conversation_state'.current_tech = None ]_vars

\* C13 as amended: a tech_stack utterance that names no technology (all
\* its pieces are blank) moves stage to technical_questions and sets
\* current_tech to the empty name, its first piece; in stage
\* technical_questions a turn without a keyword changes nothing of the
\* conversation state when current_tech is None, is the empty name or is
\* not a key of scores.
C13_EmptyTechNoOp ==
    [][ /\ ( /\ stage = "technical_questions"
             /\ NormalTurn
             /\ \/ conversation_state.current_tech = None
                \/ conversation_state.current_tech = <<>>
                \/ conversation_state.current_tech \notin
                       DOMAIN conversation_state.scores ) =>
              conversation_state' = conversation_state
        /\ (stage = "tech_stack" /\ user_input' \in C13_BlankUtterances) =>
              /\ conversation_state'.stage = "technical_questions"
              /\ conversation_state'.current_tech = <<>>
              /\ conversation_state'.current_question_index = 0 ]_vars

\* After a blank tech_stack utterance an answer left the quiz where it was.
C13_Witness ==
    /\ stage = "technical_questions"
    /\ TechStack = << <<>>, <<>> >>
    /\ conversation_state.current_tech = <<>>
    /\ conversation_state.current_question_index = 0
    /\ user_input = TextTechs

\* The stored tech stack is trimmed: no element starts or ends with
\* whitespace.
C14_Trimmed ==
    \A i \in 1..Len(TechStack) :
        TechStack[i] = <<>> \/
        (TechStack[i][1] \notin Whitespace /\
         TechStack[i][Len(TechStack[i])] \notin Whitespace)

\* collected_info.tech_stack is written by a turn without a keyword in
\* stage tech_stack and by no other turn.
C14_WrittenOnce ==
    /\ "tech_stack" \in DOMAIN collected_info =>
          /\ "tech_stack" \in DOMAIN conversation_state'.collected_info
          /\ conversation_state'.collected_info["tech_stack"] = TechStack
    /\ ( /\ "tech_stack" \notin DOMAIN collected_info
         /\ "tech_stack" \in DOMAIN conversation_state'.collected_info ) =>
          (stage = "tech_stack" /\ NormalTurn)

\* C14: collected_info.tech_stack is written only by the turn processed in
\* stage tech_stack and never modified afterwards, and the stored sequence
\* is non-empty with every element trimmed and non-empty.
C14_TechStackSetOnce ==
    [][ /\ C14_WrittenOnce
        /\ "tech_stack" \in DOMAIN collected_info =>
              /\ Len(TechStack) >= 1
              /\ C14_Trimmed
              /\ \A i \in 1..Len(TechStack) : TechStack[i] # <<>> ]_vars

\* C14 as amended: collected_info.tech_stack is written only by the turn
\* processed in stage tech_stack and never modified afterwards, and the
\* stored sequence is non-empty with every element trimmed of surrounding
\* whitespace; an element may be the empty string.
C14_TechStackSetOnceTrimmed ==
    [][ /\ C14_WrittenOnce
        /\ "tech_stack" \in DOMAIN collected_info =>
              /\ Len(TechStack) >= 1
              /\ C14_Trimmed ]_vars

\* The trimmed tech stack is still the same after the quiz has moved on.
C14_Witness ==
    /\ stage = "technical_questions"
    /\ TechStack = <<Python, Go, Rust>>
    /\ conversation_state.current_tech = Go
    /\ user_input = TextTechs

\* The sum of the marks of a list of recorded answers.
RECURSIVE C15_Marks(_)
C15_Marks(recorded) ==
    IF recorded = <<>> THEN 0
    ELSE Head(recorded).mark + C15_Marks(Tail(recorded))

\* The sum of the totals, and of the recorded marks, over a tech stack.
RECURSIVE C15_Totals(_, _)
C15_Totals(scores, techs) ==
    IF techs = <<>> THEN 0
    ELSE scores[Head(techs)].total + C15_Totals(scores, Tail(techs))

RECURSIVE C15_AllMarks(_, _)
C15_AllMarks(scores, techs) ==
    IF techs = <<>> THEN 0
    ELSE C15_Marks(scores[Head(techs)].questions) +
         C15_AllMarks(scores, Tail(techs))

\* C15: for every technology of the tech stack scores[tech].total is the
\* sum of the marks recorded in scores[tech].questions, and in a persisted
\* snapshot the sum of the totals over its tech stack is the sum of all
\* recorded marks.
C15_TotalIsSumOfMarks ==
    /\ \A tech \in Range(TechStack) :
          /\ tech \in DOMAIN conversation_state.scores
          /\ conversation_state.scores[tech].total =
                 C15_Marks(conversation_state.scores[tech].questions)
    /\ conversation_data # NoData =>
          C15_Totals(conversation_data.scores, conversation_data.tech_stack) =
          C15_AllMarks(conversation_data.scores, conversation_data.tech_stack)

\* A snapshot persisted after the quiz, with a score entry per technology.
C15_Witness ==
    /\ stage = "ending"
    /\ conversation_data # NoData
    /\ conversation_data.tech_stack = <<Python, Go, Rust>>
    /\ DOMAIN conversation_data.scores = {Python, Go, Rust}
    /\ conversation_state.current_question_index = 1

\* The conversation state that the user utterances of a transcript lead
\* to from a given state, whatever the assistant entries are.
RECURSIVE C16_Replay(_, _)
C16_Replay(state, msgs) ==
    IF msgs = <<>> THEN state
    ELSE IF Head(msgs).role = "user"
         THEN C16_Replay(UpdatedState(state, Head(msgs).content), Tail(msgs))
         ELSE C16_Replay(state, Tail(msgs))

\* C16: the conversation state is determined by the sequence of user
\* utterances alone: two runs with the same utterances have the same
\* conversation state after every turn, whatever the completion calls
\* returned and whether they raised.
C16_StateFromUtterancesOnly ==
    conversation_state = C16_Replay(InitialConversationState, messages)

\* A transcript with a greeting, a failed call and a reply.
C16_Witness ==
    /\ Len(messages) = 5
    /\ messages[1].content = Reply
    /\ messages[3].content = Apology
    /\ messages[5].content = Reply
    /\ stage = "collecting_info"
    /\ DOMAIN collected_info = {"name"}

\* The fields of collected_info in the order of the claim.
C17_Order ==
    <<"name", "email", "phone", "experience", "position", "location",
      "tech_stack">>

\* C17: a field of collected_info is present only if every earlier field
\* of name, email, phone, experience, position, location, tech_stack is.
C17_FieldsArePrefix ==
    /\ DOMAIN collected_info \subseteq Range(C17_Order)
    /\ \A i \in 1..Len(C17_Order) :
          C17_Order[i] \in DOMAIN collected_info =>
              \A j \in 1..(i - 1) : C17_Order[j] \in DOMAIN collected_info

\* Three fields are present and the fourth is asked for.
C17_Witness ==
    /\ stage = "collecting_info"
    /\ DOMAIN collected_info = {"name", "email", "phone"}
    /\ user_input = TextBlank

\* C18: with an unending stream of utterances without a termination
\* keyword, a quiz that has started (tech stacks with repeated or empty
\* names included) eventually reaches stage summary.
C18_QuizReachesSummary ==
    (stage = "technical_questions") ~> (stage = "summary")

\* The chain of stages.
C19_Chain ==
    <<"greeting", "collecting_info", "tech_stack", "technical_questions",
      "summary">>

\* C19: every turn leaves stage unchanged, moves it to its immediate
\* successor in the chain greeting, collecting_info, tech_stack,
\* technical_questions, summary, or sets it to ending; stage ending is
\* never left.
C19_StageMovesForward ==
    [][ /\ \/ conversation_state'.stage = stage
           \/ conversation_state'.stage = "ending"
           \/ \E i \in 1..(Len(C19_Chain) - 1) :
                 /\ stage = C19_Chain[i]
                 /\ conversation_state'.stage = C19_Chain[i + 1]
        /\ stage = "ending" => conversation_state'.stage = "ending" ]_vars

\* The interview ended after the summary and a later turn left it ended.
C19_Witness ==
    /\ stage = "ending"
    /\ conversation_state.current_question_index = 1
    /\ conversation_state.current_tech = Rust
    /\ user_input = TextRepeat

\* The step appends the opening greeting alone to an empty transcript.
C20_GreetingOnly ==
    /\ messages = <<>>
    /\ Len(messages') = 1
    /\ messages'[1].role = "assistant"

\* The step appends, after g greeting entries, the utterance of the turn
\* and one assistant message, which is the apology when the call failed.
C20_Pair(g) ==
    LET n == Len(messages) + g
    IN  /\ Len(messages') = n + 2
        /\ SubSeq(messages', 1, Len(messages)) = messages
        /\ g = 1 => messages'[n].role = "assistant"
        /\ messages'[n + 1] = Message("user", user_input')
        /\ messages'[n + 2].role = "assistant"
        /\ call_failed' => messages'[n + 2].content = Apology

\* C20 as stated: every user turn appends exactly two entries, the
\* utterance and one assistant message (the apology when the call fails),
\* to a transcript that holds its opening greeting, which was appended
\* once while the transcript was empty.
C20_TwoEntriesGreetingOnce ==
    [][ messages' # messages =>
          \/ C20_GreetingOnly
          \/ /\ C20_Pair(0)
             /\ messages # <<>>
             /\ messages[1].role = "assistant" ]_vars

\* C20 amended: every user turn appends its utterance and then one
\* assistant message (the apology when the call fails); the opening
\* greeting is appended only while the transcript is empty, so at most
\* once, either alone or in front of the first turn's two entries, and a
\* transcript whose greeting texts were all empty has none.
C20_TurnAppendsPair ==
    [][ messages' # messages =>
          \/ C20_GreetingOnly
          \/ C20_Pair(0)
          \/ messages = <<>> /\ C20_Pair(1) ]_vars

\* A first turn whose call failed follows the greeting.
C20_Witness ==
    /\ Len(messages) = 3
    /\ messages[1] = Message("assistant", Reply)
    /\ messages[2].role = "user"
    /\ messages[3] = Message("assistant", Apology)
    /\ call_failed
    /\ user_input = TextThanks

====
